---- MODULE Spec2Model ----
(***************************************************************************)
(* Model of image/zero_crop_and_center/zero_crop_and_center.py:            *)
(*   find_zero_bounding_box, center_in_image and the batch loop of the     *)
(*   script's __main__ block.                                              *)
(*                                                                         *)
(* A numpy array is a record [kind |-> "array", ndim, h, w, px] where px   *)
(* maps the 0-based index pair <<row, col>> to the pixel value.  A raised  *)
(* exception is a record [kind |-> "exc", msg].                            *)
(***************************************************************************)
EXTENDS Integers, Sequences, FiniteSets, TLC

\* ------------------------------------------------------------------ bounds

\* largest height and width of an input array
MaxDim == 4
\* largest number of pixels of an input array
MaxCells == 6
\* largest pixel value of an input array
MaxVal == 1
\* largest --background_threshold
MaxThreshold == 1
\* largest --out_height and --out_width
MaxOut == 5
\* largest --out_height and --out_width of a run of the script
MaxFileOut == 2

\* dtype=np.uint8: values are kept modulo 2^8
Uint8Modulus == 256

\* ------------------------------------------------------------------ values

None == [kind |-> "none"]

Raise(msg) == [kind |-> "exc", msg |-> msg]

IsExc(x) == x.kind = "exc"

IsArray(x) == x.kind = "array"

Cells(h, w) == (0 .. h - 1) \X (0 .. w - 1)

Array2D(h, w, px) == [kind |-> "array", ndim |-> 2, h |-> h, w |-> w, px |-> px]

\* an array that is not 2-dimensional (an RGB image): only its rank is used
Array3D == [kind |-> "array", ndim |-> 3, h |-> 1, w |-> 1, px |-> <<>>]

Max(a, b) == IF a >= b THEN a ELSE b

Min(a, b) == IF a <= b THEN a ELSE b

Shapes == {s \in (1 .. MaxDim) \X (1 .. MaxDim) : s[1] * s[2] <= MaxCells}

\* every 2D array of one of the shapes, with pixel values 0 .. MaxVal
ArraysOf(shapes) ==
  UNION {{Array2D(s[1], s[2], px) : px \in [Cells(s[1], s[2]) -> 0 .. MaxVal]} : s \in shapes}

\* every 2D input array within the bounds
Images == ArraysOf(Shapes)

Thresholds == -1 .. MaxThreshold

OutputSizes == (1 .. MaxOut) \X (1 .. MaxOut)

\* ------------------------------------------------------------------ numpy

\* Python's slice start:stop on an axis of length n: a negative index counts
\* from the end, and both ends are clipped to 0 .. n
SliceIndex(i, n) == IF i < 0 THEN Max(i + n, 0) ELSE Min(i, n)

SliceStart(start, stop, n) == SliceIndex(start, n)

SliceLen(start, stop, n) == Max(0, SliceIndex(stop, n) - SliceIndex(start, n))

\* a[top:bottom, left:right]
Slice2D(a, top, bottom, left, right) ==
  LET r0 == SliceStart(top, bottom, a.h)
      c0 == SliceStart(left, right, a.w)
      nh == SliceLen(top, bottom, a.h)
      nw == SliceLen(left, right, a.w)
  IN  Array2D(nh, nw, [p \in Cells(nh, nw) |-> a.px[<<p[1] + r0, p[2] + c0>>]])

\* iterating a 2D array yields its rows
Rows(a) == [i \in 1 .. a.h |-> [j \in 1 .. a.w |-> a.px[<<i - 1, j - 1>>]]]

\* iterating a.T yields the columns of a
Columns(a) == [j \in 1 .. a.w |-> [i \in 1 .. a.h |-> a.px[<<i - 1, j - 1>>]]]

\* np.flip(x, axis=0)
Flip(rows) == [i \in 1 .. Len(rows) |-> rows[Len(rows) + 1 - i]]

\* np.invert on uint8
Invert(a) == Array2D(a.h, a.w, [p \in Cells(a.h, a.w) |-> Uint8Modulus - 1 - a.px[p]])

\* ------------------------------------------------------------------ find_zero_bounding_box

\* the inner loop: some element of the row is above the threshold
KeepRow(row, background_threshold) ==
  \E j \in 1 .. Len(row) : row[j] > background_threshold

RECURSIVE ScanFrom(_, _, _)
\* the outer loop from row i on: the number of rows passed before the first
\* row that is kept
ScanFrom(rows, background_threshold, i) ==
  IF i > Len(rows) THEN 0
  ELSE IF KeepRow(rows[i], background_threshold) THEN 0
  ELSE 1 + ScanFrom(rows, background_threshold, i + 1)

\* Scan as it would be if an array with no row to keep were given back whole
ScanKeepsAllWhenEmpty(rows, background_threshold) ==
  IF \A i \in 1 .. Len(rows) : ~KeepRow(rows[i], background_threshold)
  THEN 0
  ELSE ScanFrom(rows, background_threshold, 1)

\* one of the four scans: how many leading rows are background
Scan(rows, background_threshold) == ScanFrom(rows, background_threshold, 1)

start_row(image_array, background_threshold) ==
  0 + Scan(Rows(image_array), background_threshold)

end_row(image_array, background_threshold) ==
  (image_array.h - 1) - Scan(Flip(Rows(image_array)), background_threshold)

start_col(image_array, background_threshold) ==
  0 + Scan(Columns(image_array), background_threshold)

\* the right edge starts from shape[0] - 1, the number of rows
end_col(image_array, background_threshold) ==
  (image_array.h - 1) - Scan(Flip(Columns(image_array)), background_threshold)

find_zero_bounding_box(image_array, background_threshold) ==
  IF image_array.ndim # 2 THEN Raise("Only 2D arrays are supported.")
  ELSE [kind |-> "box",
        top |-> start_row(image_array, background_threshold),
        bottom |-> end_row(image_array, background_threshold) + 1,
        left |-> start_col(image_array, background_threshold),
        right |-> end_col(image_array, background_threshold) + 1]

\* img[top:bottom, left:right]
Crop(img, b) == Slice2D(img, b.top, b.bottom, b.left, b.right)

\* ------------------------------------------------------------------ center_in_image

RECURSIVE SumTo(_, _, _)
\* the sum over the first k pixels p of a, in row-major order, of px[p]
\* (axis 0), of row index * px[p] (axis 1) or of column index * px[p] (axis 2)
SumTo(a, axis, k) ==
  IF k = 0 THEN 0
  ELSE LET p == <<(k - 1) \div a.w, (k - 1) % a.w>>
       IN  (IF axis = 0 THEN 1 ELSE p[axis]) * a.px[p] + SumTo(a, axis, k - 1)

\* scipy.ndimage center_of_mass: per axis, sum(input * index) / sum(input), a
\* float kept here as the fraction num/den; 0/0 is NaN
center_of_mass(image_array) ==
  LET n == image_array.h * image_array.w
      normalizer == SumTo(image_array, 0, n)
  IN  [y |-> [num |-> SumTo(image_array, 1, n), den |-> normalizer],
       x |-> [num |-> SumTo(image_array, 2, n), den |-> normalizer]]

IsNaN(f) == f.den = 0

\* math.floor of a float that is not NaN (math.floor(nan) raises ValueError)
math_floor(f) == f.num \div f.den

\* center_out as it would be with the center taken as the middle of 0 .. dim - 1
center_out_of_last_index(canvas_dim) == (canvas_dim - 1) \div 2

\* y_center_out and x_center_out: the center of the canvas along an axis
center_out(canvas_dim) == canvas_dim \div 2

\* diff as it would be without the max(0, .)
diff_unclamped(center_of_canvas, center) == center_of_canvas - center

\* y_diff and x_diff
diff(center_of_canvas, center) == Max(0, center_of_canvas - center)

\* buff as it would be if the overflow at the far edge were never taken back
buff_never(input_dim, d, canvas_dim) == 0

\* y_buff and x_buff: what out_shape lacks of the input along an axis
buff(input_dim, d, canvas_dim) ==
  LET out_shape_dim == SliceLen(d, input_dim + d, canvas_dim)
  IN  IF out_shape_dim < input_dim THEN input_dim - out_shape_dim ELSE 0

\* output_array[r_start:r_stop, c_start:c_stop] = image_array on a zero canvas of
\* shape output_size: numpy broadcasts an axis of length 1, refuses any other
\* shape mismatch, and narrows the values to uint8
AssignSlice(output_size, r_start, r_stop, c_start, c_stop, image_array) ==
  LET H  == output_size[1]
      W  == output_size[2]
      r0 == SliceStart(r_start, r_stop, H)
      c0 == SliceStart(c_start, c_stop, W)
      nh == SliceLen(r_start, r_stop, H)
      nw == SliceLen(c_start, c_stop, W)
      src(p) == <<IF image_array.h = 1 THEN 0 ELSE p[1] - r0,
                  IF image_array.w = 1 THEN 0 ELSE p[2] - c0>>
      inside(p) == /\ r0 <= p[1] /\ p[1] < r0 + nh
                   /\ c0 <= p[2] /\ p[2] < c0 + nw
  IN  IF \/ image_array.h \notin {1, nh}
         \/ image_array.w \notin {1, nw}
      THEN Raise("could not broadcast input array")
      ELSE Array2D(H, W, [p \in Cells(H, W) |->
                            IF inside(p) THEN image_array.px[src(p)] % Uint8Modulus
                            ELSE 0])

\* CheckShapes as it would be with < in place of <=
CheckShapesAllowingEqual(image_array, output_size) ==
  IF image_array.ndim # 2
  THEN Raise("Only 2D image arrays are supported.")
  ELSE IF output_size[1] < image_array.h
  THEN Raise("Output array must not be taller than input array.")
  ELSE IF output_size[2] < image_array.w
  THEN Raise("Output array must not be wider than input array.")
  ELSE None

\* the four checks made before the center of mass is computed
CheckShapes(image_array, output_size) ==
  IF image_array.ndim # 2
  THEN Raise("Only 2D image arrays are supported.")
  ELSE IF output_size[1] <= image_array.h
  THEN Raise("Output array must not be taller than input array.")
  ELSE IF output_size[2] <= image_array.w
  THEN Raise("Output array must not be wider than input array.")
  ELSE None

\* the offsets and the copy into the canvas, given the floored center of mass
Place(image_array, output_size, y_center, x_center) ==
  LET x_diff == diff(center_out(output_size[2]), x_center)
      y_diff == diff(center_out(output_size[1]), y_center)
      y_buff == buff(image_array.h, y_diff, output_size[1])
      x_buff == buff(image_array.w, x_diff, output_size[2])
  IN  AssignSlice(output_size,
                  y_diff - y_buff, image_array.h + y_diff,
                  x_diff - x_buff, image_array.w + x_diff,
                  image_array)

\* CenterThenPlace as it would be if a NaN center of mass were taken as 0
CenterThenPlaceNaNAsZero(image_array, output_size) ==
  LET com == center_of_mass(image_array)
  IN  IF IsNaN(com.y) \/ IsNaN(com.x)
      THEN Place(image_array, output_size, 0, 0)
      ELSE Place(image_array, output_size, math_floor(com.y), math_floor(com.x))

\* the center of mass, its flooring and the placement
CenterThenPlace(image_array, output_size) ==
  LET com == center_of_mass(image_array)
  IN  IF IsNaN(com.y) \/ IsNaN(com.x)
      THEN Raise("cannot convert float NaN to integer")
      ELSE Place(image_array, output_size, math_floor(com.y), math_floor(com.x))

center_in_image(image_array, output_size) ==
  LET shape_error == CheckShapes(image_array, output_size)
  IN  IF IsExc(shape_error) THEN shape_error
      ELSE CenterThenPlace(image_array, output_size)

\* ------------------------------------------------------------------ the script's inputs

\* a file name is the sequence of its characters
PngNames == {<<"a", ".", "p", "n", "g">>, <<"b", ".", "p", "n", "g">>}

OtherNames == {<<"c", ".", "t", "x", "t">>}

FileNames == PngNames \cup OtherNames

\* str.endswith
endswith(name, suffix) ==
  /\ Len(name) >= Len(suffix)
  /\ SubSeq(name, Len(name) - Len(suffix) + 1, Len(name)) = suffix

\* the filter of the directory listing
is_png(name) == endswith(name, <<".", "p", "n", "g">>)

\* os.listdir: the names of the directory in an arbitrary order
Listings(names) ==
  {l \in [1 .. Cardinality(names) -> names] : \A i, j \in DOMAIN l : l[i] = l[j] => i = j}

\* a file imageio.imread cannot decode
Undecodable == [kind |-> "undecodable"]

\* the shapes of the image files of the input directory
FileShapes == {<<1, 1>>, <<1, 2>>, <<2, 1>>}

\* what imageio.imread may find in a file
FileContents == ArraysOf(FileShapes) \cup {Array3D, Undecodable}

FileThresholds == 0 .. MaxThreshold

FileOutputSizes == (1 .. MaxFileOut) \X (1 .. MaxFileOut)

\* ------------------------------------------------------------------ state

VARIABLES
  pc,                    \* the position in the script or in the function call
  image_array,           \* the array handed to find_zero_bounding_box or center_in_image
  background_threshold,  \* args.background_threshold
  box,                   \* top, bottom, left, right of find_zero_bounding_box
  cropped_img,
  box_of_crop,           \* the bounding box found again on the crop
  output_size,           \* (args.out_height, args.out_width)
  centered_img,          \* the result of center_in_image
  in_dir,                \* the file names of args.in_dir
  invert_image,          \* args.invert_image
  png_names,
  idx,                   \* the position of the loop in png_names
  img,
  saved,                 \* the names imageio.imsave has written to args.out_dir
  log                    \* what the except handler has printed

callVars == <<image_array, box_of_crop>>

batchVars == <<in_dir, invert_image, png_names, idx, img, saved, log>>

vars ==
  <<pc, image_array, background_threshold, box, cropped_img, box_of_crop,
    output_size, centered_img, in_dir, invert_image, png_names, idx, img, saved, log>>

NoBatch ==
  /\ in_dir = {}
  /\ invert_image = FALSE
  /\ png_names = <<>>
  /\ idx = 0
  /\ img = None
  /\ saved = {}
  /\ log = <<>>

\* ------------------------------------------------------------------ find_zero_bounding_box on every array

InitBox ==
  /\ pc = "find"
  /\ image_array \in Images
  /\ background_threshold \in Thresholds
  /\ box = None
  /\ cropped_img = None
  /\ box_of_crop = None
  /\ output_size = <<1, 1>>
  /\ centered_img = None
  /\ NoBatch

FindBox ==
  /\ pc = "find"
  /\ box' = find_zero_bounding_box(image_array, background_threshold)
  /\ pc' = "crop"
  /\ UNCHANGED <<image_array, background_threshold, cropped_img, box_of_crop,
                 output_size, centered_img, batchVars>>

CropBox ==
  /\ pc = "crop"
  /\ cropped_img' = Crop(image_array, box)
  /\ pc' = "refind"
  /\ UNCHANGED <<image_array, background_threshold, box, box_of_crop,
                 output_size, centered_img, batchVars>>

FindBoxOfCrop ==
  /\ pc = "refind"
  /\ box_of_crop' = find_zero_bounding_box(cropped_img, background_threshold)
  /\ pc' = "done"
  /\ UNCHANGED <<image_array, background_threshold, box, cropped_img,
                 output_size, centered_img, batchVars>>

NextBox == FindBox \/ CropBox \/ FindBoxOfCrop

SpecBox == InitBox /\ [][NextBox]_vars

\* ------------------------------------------------------------------ center_in_image on every array

InitCenter ==
  /\ pc = "center"
  /\ image_array \in Images \cup {Array3D}
  /\ output_size \in OutputSizes
  /\ background_threshold = 0
  /\ box = None
  /\ cropped_img = None
  /\ box_of_crop = None
  /\ centered_img = None
  /\ NoBatch

CallCenter ==
  /\ pc = "center"
  /\ centered_img' = center_in_image(image_array, output_size)
  /\ pc' = "done"
  /\ UNCHANGED <<image_array, background_threshold, box, cropped_img, box_of_crop,
                 output_size, batchVars>>

NextCenter == CallCenter

SpecCenter == InitCenter /\ [][NextCenter]_vars

\* ------------------------------------------------------------------ the script

Init ==
  /\ pc = "listdir"
  /\ in_dir \in SUBSET FileNames
  /\ invert_image \in BOOLEAN
  /\ background_threshold \in FileThresholds
  /\ output_size \in FileOutputSizes
  /\ png_names = <<>>
  /\ idx = 0
  /\ img = None
  /\ box = None
  /\ cropped_img = None
  /\ centered_img = None
  /\ saved = {}
  /\ log = <<>>
  /\ image_array = None
  /\ box_of_crop = None

\* png_names = [i for i in os.listdir(args.in_dir) if i.endswith('.png')], and the
\* ValueError that ends the script when the list is empty
ListDir ==
  /\ pc = "listdir"
  /\ \E listing \in Listings(in_dir) :
       /\ png_names' = SelectSeq(listing, is_png)
       /\ pc' = IF Len(png_names') = 0 THEN "raised" ELSE "loop"
  /\ idx' = 1
  /\ UNCHANGED <<background_threshold, box, cropped_img, output_size, centered_img,
                 in_dir, invert_image, img, saved, log, callVars>>

\* img once it is read and, with --invert_image, inverted
Inverted(data) ==
  IF invert_image /\ data.ndim = 2 THEN Invert(data) ELSE data

\* the try block up to imsave on a file that holds data: the exception it raises
\* (None when it raises none) and the values of its variables when it ends
TryBlock(data) ==
  LET old == [img |-> img, box |-> box, cropped_img |-> cropped_img,
              centered_img |-> centered_img]
      im == Inverted(data)
      b == find_zero_bounding_box(im, background_threshold)
      crop == Crop(im, b)
      centered == center_in_image(crop, output_size)
  IN  IF data = Undecodable
      THEN [e |-> Raise("Could not load image")] @@ old
      ELSE IF IsExc(b)
      THEN [e |-> b, img |-> im] @@ old
      ELSE IF IsExc(centered)
      THEN [e |-> centered, img |-> im, box |-> b, cropped_img |-> crop] @@ old
      ELSE [e |-> None, img |-> im, box |-> b, cropped_img |-> crop,
            centered_img |-> centered]

\* one iteration whose try block runs to its end: the image is saved
ProcessFile ==
  /\ pc = "loop"
  /\ idx <= Len(png_names)
  /\ \E data \in FileContents : \E try \in {TryBlock(data)} :
           /\ try.e = None
           /\ img' = try.img
           /\ box' = try.box
           /\ cropped_img' = try.cropped_img
           /\ centered_img' = try.centered_img
  /\ saved' = saved \cup {png_names[idx]}
  /\ idx' = idx + 1
  /\ UNCHANGED <<pc, background_threshold, output_size, in_dir, invert_image,
                 png_names, log, callVars>>

\* ProcessFileExcept as it would be without the try/except: the exception ends
\* the script
ProcessFileUncaught ==
  /\ pc = "loop"
  /\ idx <= Len(png_names)
  /\ \E data \in FileContents : \E try \in {TryBlock(data)} :
       /\ img' = try.img
       /\ box' = try.box
       /\ cropped_img' = try.cropped_img
       /\ centered_img' = try.centered_img
  /\ pc' = "raised"
  /\ UNCHANGED <<idx, background_threshold, output_size, in_dir, invert_image,
                 png_names, saved, log, callVars>>

\* one iteration whose try block raises, in a statement before imsave or in
\* imsave itself: the handler prints the file and the error, and the loop goes on
ProcessFileExcept ==
  /\ pc = "loop"
  /\ idx <= Len(png_names)
  /\ \E data \in FileContents : \E try \in {TryBlock(data)} :
       LET e == IF try.e = None THEN Raise("Could not write image") ELSE try.e
       IN  /\ img' = try.img
           /\ box' = try.box
           /\ cropped_img' = try.cropped_img
           /\ centered_img' = try.centered_img
           /\ log' = Append(log, [file |-> png_names[idx], e |-> e])
  /\ idx' = idx + 1
  /\ UNCHANGED <<pc, background_threshold, output_size, in_dir, invert_image,
                 png_names, saved, callVars>>

\* the loop is over and the script ends
Finish ==
  /\ pc = "loop"
  /\ idx > Len(png_names)
  /\ pc' = "done"
  /\ UNCHANGED <<background_threshold, box, cropped_img, output_size, centered_img,
                 batchVars, callVars>>

Next == ListDir \/ ProcessFile \/ ProcessFileExcept \/ Finish

Spec == Init /\ [][Next]_vars

\* ------------------------------------------------------------------ properties

\* the pixels of a above the threshold t
Above(a, t) == {p \in Cells(a.h, a.w) : a.px[p] > t}

MinOf(S) == CHOOSE x \in S : \A y \in S : x <= y

MaxOf(S) == CHOOSE x \in S : \A y \in S : x >= y

\* the tight half-open box around the pixels of a above t
TightBox(a, t) ==
  [kind |-> "box",
   top |-> MinOf({p[1] : p \in Above(a, t)}),
   bottom |-> MaxOf({p[1] : p \in Above(a, t)}) + 1,
   left |-> MinOf({p[2] : p \in Above(a, t)}),
   right |-> MaxOf({p[2] : p \in Above(a, t)}) + 1]

BoxFound == pc \in {"crop", "refind", "done"}

\* C1: when some pixel is above the threshold, find_zero_bounding_box returns the
\* tight half-open box (min row, max row + 1, min col, max col + 1) of the pixels
\* above the threshold, whatever the shape of the grid
C1_TightBox ==
  (BoxFound /\ Above(image_array, background_threshold) # {})
    => box = TightBox(image_array, background_threshold)

\* C2: when some pixel is above the threshold, the box lies within the grid:
\* 0 <= top <= bottom <= H and 0 <= left <= right <= W
C2_BoxWithinGrid ==
  (BoxFound /\ Above(image_array, background_threshold) # {})
    => /\ 0 <= box.top /\ box.top <= box.bottom /\ box.bottom <= image_array.h
       /\ 0 <= box.left /\ box.left <= box.right /\ box.right <= image_array.w

\* C3: when some pixel is above the threshold, the bounding box of the crop is
\* the whole crop, (0, crop_h, 0, crop_w)
C3_RoundTrip ==
  (pc = "done" /\ Above(image_array, background_threshold) # {})
    => box_of_crop = [kind |-> "box", top |-> 0, bottom |-> cropped_img.h,
                      left |-> 0, right |-> cropped_img.w]

\* C4: when no pixel is above the threshold, find_zero_bounding_box raises
\* nothing and returns a box with top > bottom or left > right, and the slice of
\* the grid by that box has no cell
C4_AllBackgroundIsEmpty ==
  Above(image_array, background_threshold) = {}
    => /\ BoxFound
            => /\ box.kind = "box"
               /\ (box.top > box.bottom \/ box.left > box.right)
       /\ pc \in {"refind", "done"}
            => /\ IsArray(cropped_img)
               /\ Cells(cropped_img.h, cropped_img.w) = {}

C4_Witness ==
  /\ pc = "refind"
  /\ Above(image_array, background_threshold) = {}
  /\ image_array.h = 2
  /\ image_array.w = 3
  /\ \E p \in Cells(2, 3) : image_array.px[p] > 0
  /\ box.top > box.bottom
  /\ cropped_img.h * cropped_img.w = 0

\* ---- center_in_image

Returned == pc = "done"

\* the canvas of shape size that is 0 but for a, whose top-left corner is at
\* (oy, ox)
BlockAt(a, size, oy, ox) ==
  Array2D(size[1], size[2],
          [p \in Cells(size[1], size[2]) |->
             IF /\ oy <= p[1] /\ p[1] < oy + a.h
                /\ ox <= p[2] /\ p[2] < ox + a.w
             THEN a.px[<<p[1] - oy, p[2] - ox>>]
             ELSE 0])

\* a valid input: 2D, of positive total intensity, smaller than the canvas on
\* both axes
ValidInput ==
  /\ image_array.ndim = 2
  /\ \E p \in Cells(image_array.h, image_array.w) : image_array.px[p] > 0
  /\ image_array.h < output_size[1]
  /\ image_array.w < output_size[2]

Uniform ==
  /\ image_array.ndim = 2
  /\ image_array.px[<<0, 0>>] > 0
  /\ \A p \in Cells(image_array.h, image_array.w) :
       image_array.px[p] = image_array.px[<<0, 0>>]
  /\ image_array.h < output_size[1]
  /\ image_array.w < output_size[2]

\* C5 as the spec states it: an input of uniform positive intensity is placed
\* with its top-left corner at ((H - h) // 2, (W - w) // 2)
C5_UniformAtHalfOfDifference ==
  (Returned /\ Uniform)
    => centered_img = BlockAt(image_array, output_size,
                              (output_size[1] - image_array.h) \div 2,
                              (output_size[2] - image_array.w) \div 2)

\* C5 amended: an input of uniform positive intensity is placed with its
\* top-left corner at (H // 2 - (h - 1) // 2, W // 2 - (w - 1) // 2), and every
\* canvas cell it does not cover is 0
C5_UniformAtCenterMinusFlooredCenter ==
  (Returned /\ Uniform)
    => centered_img = BlockAt(image_array, output_size,
                              output_size[1] \div 2 - (image_array.h - 1) \div 2,
                              output_size[2] \div 2 - (image_array.w - 1) \div 2)

C5_Witness ==
  /\ Returned
  /\ Uniform
  /\ image_array.h = 2
  /\ image_array.w = 3
  /\ output_size = <<4, 5>>
  /\ centered_img = BlockAt(image_array, output_size, 2, 1)

\* C6: a valid input appears whole in the canvas of shape (H, W), as one block
\* at some offset (oy, ox) with 0 <= oy <= H - h and 0 <= ox <= W - w, and the
\* canvas is 0 outside the block
C6_UnclippedBlock ==
  (Returned /\ ValidInput)
    => \E oy \in 0 .. output_size[1] - image_array.h,
          ox \in 0 .. output_size[2] - image_array.w :
         centered_img = BlockAt(image_array, output_size, oy, ox)

\* all the mass in the first row of a 3-row input on a 4-row canvas: the offset
\* center - 0 = 2 would put the last row off the canvas
C6_Witness ==
  /\ Returned
  /\ ValidInput
  /\ image_array.h = 3
  /\ output_size[1] = 4
  /\ \A p \in Cells(image_array.h, image_array.w) : p[1] > 0 => image_array.px[p] = 0
  /\ \E ox \in 0 .. output_size[2] - image_array.w :
       centered_img = BlockAt(image_array, output_size, 1, ox)

RECURSIVE SumSet(_, _)
\* the sum of f[x] over the x of S
SumSet(S, f) ==
  IF S = {} THEN 0
  ELSE LET x == CHOOSE y \in S : TRUE
       IN  f[x] + SumSet(S \ {x}, f)

\* the floor of the center of mass of a along axis (1: rows, 2: columns): the
\* k with k * total <= sum of index * value < (k + 1) * total
FlooredCenter(a, axis) ==
  LET moment == [p \in Cells(a.h, a.w) |-> p[axis] * a.px[p]]
      total == SumSet(Cells(a.h, a.w), a.px)
      first == SumSet(Cells(a.h, a.w), moment)
  IN  CHOOSE k \in 0 .. Max(a.h, a.w) : k * total <= first /\ first < (k + 1) * total

Clamp(x, lo, hi) == IF x < lo THEN lo ELSE IF x > hi THEN hi ELSE x

Abs(x) == IF x < 0 THEN -x ELSE x

\* C7: for a valid input the offset on each axis is
\* clamp(canvas_dim // 2 - floor(center of mass), 0, canvas_dim - input_dim), and
\* no offset that keeps the input in the canvas brings the floored center of
\* mass closer to canvas_dim // 2
C7_ClampedOffset ==
  (Returned /\ ValidInput)
    => LET H  == output_size[1]
           W  == output_size[2]
           cy == FlooredCenter(image_array, 1)
           cx == FlooredCenter(image_array, 2)
           oy == Clamp(H \div 2 - cy, 0, H - image_array.h)
           ox == Clamp(W \div 2 - cx, 0, W - image_array.w)
       IN  /\ centered_img = BlockAt(image_array, output_size, oy, ox)
           /\ \A o \in 0 .. H - image_array.h :
                Abs(oy + cy - H \div 2) <= Abs(o + cy - H \div 2)
           /\ \A o \in 0 .. W - image_array.w :
                Abs(ox + cx - W \div 2) <= Abs(o + cx - W \div 2)

\* the center of mass lies below the center of the canvas: the offset
\* 2 - 3 = -1 is clamped to 0
C7_Witness ==
  /\ Returned
  /\ ValidInput
  /\ image_array.h = 4
  /\ output_size[1] = 5
  /\ FlooredCenter(image_array, 1) = 3
  /\ \E ox \in 0 .. output_size[2] - image_array.w :
       centered_img = BlockAt(image_array, output_size, 0, ox)

\* C9: center_in_image raises its shape error and returns no canvas when
\* out_height <= input_height or out_width <= input_width, one axis being enough
C9_ShapeError ==
  (Returned /\ (\/ output_size[1] <= image_array.h
                \/ output_size[2] <= image_array.w))
    => /\ IsExc(centered_img)
       /\ image_array.ndim = 2
            => centered_img.msg \in
                 {"Output array must not be taller than input array.",
                  "Output array must not be wider than input array."}

\* a canvas taller than the input and exactly as wide
C9_Witness ==
  /\ Returned
  /\ image_array.ndim = 2
  /\ \E p \in Cells(image_array.h, image_array.w) : image_array.px[p] > 0
  /\ output_size[1] > image_array.h
  /\ output_size[2] = image_array.w
  /\ IsExc(centered_img)

\* ---- the script

Logged == {log[i].file : i \in 1 .. Len(log)}

\* C8: the files the run attempts are the files named *.png and no other, each
\* once; an exception on one file is logged and the loop goes on; when the run
\* ends the saved names are the *.png names that raised nothing
C8_BatchNeverAborts ==
  /\ pc = "loop"
       => /\ saved \cup Logged = {png_names[i] : i \in 1 .. idx - 1}
          /\ saved \cap Logged = {}
  /\ pc \in {"done", "raised"}
       => /\ saved \cup Logged = in_dir \cap PngNames
          /\ saved = (in_dir \cap PngNames) \ Logged
          /\ Len(log) = Cardinality(Logged)
  /\ pc = "raised" => in_dir \cap PngNames = {}

\* two images and one other file: the first image raises, the second is saved
C8_Witness ==
  /\ pc = "done"
  /\ in_dir = FileNames
  /\ Len(log) = 1
  /\ log[1].file = png_names[1]
  /\ log[1].e.msg = "Output array must not be taller than input array."
  /\ saved = {png_names[2]}

\* C10: a file whose image has no pixel above the threshold is never saved: its
\* crop has no cell, the error is logged for that file, and the loop goes on
C10_BackgroundImageNeverSaved ==
  (/\ idx > 1
   /\ IsArray(img)
   /\ img.ndim = 2
   /\ Above(img, background_threshold) = {})
    => /\ pc \in {"loop", "done"}
       /\ png_names[idx - 1] \notin saved
       /\ Len(log) > 0
       /\ log[Len(log)].file = png_names[idx - 1]
       /\ log[Len(log)].e.msg \in {"cannot convert float NaN to integer",
                                   "Could not load image"}
       /\ IsArray(centered_img) => \E p \in Cells(centered_img.h, centered_img.w) :
                                     centered_img.px[p] > 0

\* the first of two images has no pixel above the threshold: it is logged with
\* the flooring error and the loop is at the second
C10_Witness ==
  /\ pc = "loop"
  /\ idx = 2
  /\ Len(png_names) = 2
  /\ IsArray(img)
  /\ img.ndim = 2
  /\ img.h * img.w = 2
  /\ Above(img, background_threshold) = {}
  /\ Cells(cropped_img.h, cropped_img.w) = {}
  /\ saved = {}
  /\ log[1].e.msg = "cannot convert float NaN to integer"

====
